---- MODULE Spec2Model ----
(***************************************************************************)
(* A model of EMUSNESV0.py: the SimpleSNESCPU interpreter (memory, the     *)
(* register file, step), the SNESPPU (framebuffer, render_frame) and the   *)
(* CitraLikeEmulator frame scheduler (load_rom, start/pause/stop, emulate  *)
(* re-armed through root.after).                                           *)
(*                                                                         *)
(* The bytearray `memory` is 1 MiB of mostly zero bytes.  It is modelled   *)
(* as a record [len, nz]: its length and the finite map of the addresses   *)
(* that hold a non-zero byte.  Every operator keeps nz free of zero        *)
(* values, so two memories are equal exactly when the records are equal.   *)
(***************************************************************************)
EXTENDS Integers, Sequences, FiniteSets, TLC

VARIABLES
    memory,        \* SimpleSNESCPU.memory, as [len, nz]
    pc, a, x, y, sp, status,   \* SimpleSNESCPU registers
    is_running,    \* CitraLikeEmulator.is_running
    pending,       \* number of emulate callbacks armed with root.after
    framebuffer,   \* SNESPPU.framebuffer, as [len, mul, add, mod]
    ppu_image,     \* SNESPPU.ppu_image: NoImage or the image rendered last
    canvas,        \* "image" when the canvas holds an image item, else "empty"
    status_label,  \* text of the status bar label
    lastOp,        \* the handler that ran last
    lastSteps,     \* number of cpu.step() calls that handler made
    rendered,      \* whether that handler ran ppu.render_frame()
    lastError,     \* the exception that handler raised, or "none"
    nticks,        \* emulate()/step() invocations so far (bounded runs)
    nloads         \* load_rom invocations so far (bounded runs)

vars == <<memory, pc, a, x, y, sp, status, framebuffer, ppu_image, is_running,
          pending, canvas, status_label, lastOp, lastSteps, rendered, lastError,
          nticks, nloads>>

cpuVars == <<memory, pc, a, x, y, sp, status>>

ppuVars == <<framebuffer, ppu_image>>

----------------------------------------------------------------------------
(* Program constants *)

MemSize == 1048576         \* 0x100000, bytearray(0x100000)
ResetPC == 32768           \* 0x8000
ResetSP == 256             \* 0x0100
ProgLo == 32768            \* slice start 0x8000 of the test program
ProgHi == 32771            \* slice stop 0x8003 of the test program
RomLo == 32768             \* slice start 0x8000 of load_rom
RomHi == 49152             \* slice stop 0xC000 of load_rom
RomReadMax == 131072       \* f.read(0x20000)
OpLDA == 169               \* 0xA9
OpSTA == 141               \* 0x8D
OpJMP == 76                \* 0x4C
StepsPerFrame == 100       \* range(100)
Width == 256               \* SNESPPU.width
Height == 224              \* SNESPPU.height
ColorMod == 256            \* i % 256

(* Bounds of the model *)

MaxTicks == 3        \* emulate() invocations in a run of Spec
MaxLoads == 1        \* load_rom invocations in a run of Spec and SpecCPU
MaxPending == 2      \* armed callbacks beyond which start is not pressed again
MaxSteps == 12       \* step() calls in a run of SpecCPU
MaxShrink == 62      \* load_rom invocations in a run of SpecErr
MaxErrTicks == 2     \* emulate() invocations in a run of SpecErr

----------------------------------------------------------------------------
(* bytearray *)

Min(i, j) == IF i < j THEN i ELSE j

EmptyMap == [i \in {} |-> 0]

\* bytearray(n): n zero bytes
ByteArray(n) == [len |-> n, nz |-> EmptyMap]

\* bytearray(list): the bytes of a list, index 0 first
FromSeq(s) ==
    [len |-> Len(s),
     nz  |-> [i \in {k - 1 : k \in {j \in 1..Len(s) : s[j] # 0}} |-> s[i + 1]]]

\* m[i] for 0 <= i < len(m)
MemRead(m, i) == IF i \in DOMAIN m.nz THEN m.nz[i] ELSE 0

\* m[i] = v for 0 <= i < len(m)
MemWrite(m, i, v) ==
    LET D == IF v = 0 THEN DOMAIN m.nz \ {i} ELSE DOMAIN m.nz \cup {i}
    IN  [len |-> m.len,
         nz  |-> [k \in D |-> IF k = i THEN v ELSE m.nz[k]]]

\* m[lo:hi] = d for 0 <= lo, 0 <= hi: slice assignment with Python's
\* clamping of the slice bounds; the bytearray is resized by
\* len(d) - (stop - start) and the tail moves.
SliceAssign(m, lo, hi, d) ==
    LET start == Min(lo, m.len)
        stop0 == Min(hi, m.len)
        stop  == IF stop0 < start THEN start ELSE stop0
        shift == d.len - (stop - start)
        keep  == {k \in DOMAIN m.nz : k < start}
        tail  == {k \in DOMAIN m.nz : k >= stop}
        D     == keep \cup {start + k : k \in DOMAIN d.nz}
                      \cup {k + shift : k \in tail}
    IN  [len |-> m.len + shift,
         nz  |-> [k \in D |->
                    IF k < start THEN m.nz[k]
                    ELSE IF k < start + d.len THEN d.nz[k - start]
                    ELSE m.nz[k - shift]]]

\* f.read(n): at most the first n bytes of a file
ReadFile(f, n) ==
    IF f.len <= n THEN f
    ELSE [len |-> n, nz |-> [k \in {j \in DOMAIN f.nz : j < n} |-> f.nz[k]]]

----------------------------------------------------------------------------
(* SimpleSNESCPU *)

TestProgram == <<169, 5, 141, 0, 2, 76, 0, 128>>

\* SimpleSNESCPU.__init__
NewCPU ==
    [memory |-> SliceAssign(ByteArray(MemSize), ProgLo, ProgHi, FromSeq(TestProgram)),
     pc |-> ResetPC, a |-> 0, x |-> 0, y |-> 0, sp |-> ResetSP, status |-> 0,
     err |-> "none"]

Raise(c) == [c EXCEPT !.err = "IndexError"]

\* the address read low byte first
Address_le(m, p) == MemRead(m, p) + MemRead(m, p + 1) * 256

\* (self.memory[self.pc] << 8) | self.memory[self.pc + 1]
Address(m, p) == MemRead(m, p) * 256 + MemRead(m, p + 1)

\* lda without its self.pc += 1
lda_no_advance(c) ==
    IF c.pc >= c.memory.len THEN Raise(c)
    ELSE [c EXCEPT !.a = MemRead(c.memory, c.pc)]

\* lda loading the x register
lda_into_x(c) ==
    IF c.pc >= c.memory.len THEN Raise(c)
    ELSE [c EXCEPT !.x = MemRead(c.memory, c.pc), !.pc = c.pc + 1]

\* opcode 0xA9, after the opcode fetch has advanced pc
lda(c) ==
    IF c.pc >= c.memory.len THEN Raise(c)
    ELSE [c EXCEPT !.a = MemRead(c.memory, c.pc), !.pc = c.pc + 1]

\* opcode 0x8D after the address has been read
sta(c, address) ==
    IF address >= c.memory.len THEN Raise(c)
    ELSE [c EXCEPT !.memory = MemWrite(c.memory, address, c.a), !.pc = c.pc + 2]

\* jmp without its self.pc = address
jmp_no_jump(c, address) == [c EXCEPT !.pc = c.pc + 2]

\* opcode 0x4C after the address has been read: self.pc = address, then the
\* self.pc += 2 shared with STA
jmp(c, address) == [c EXCEPT !.pc = address + 2]

\* opcodes 0x8D and 0x4C, after the opcode fetch has advanced pc
absolute(c, opcode) ==
    IF c.pc + 1 >= c.memory.len THEN Raise(c)
    ELSE IF opcode = OpSTA THEN sta(c, Address(c.memory, c.pc))
    ELSE jmp(c, Address(c.memory, c.pc))

\* any other opcode: no branch of the if/elif chain is taken
other(c) == c

\* SimpleSNESCPU.step: one fetch-decode-execute; an index past the end of
\* the bytearray raises IndexError at the statement that makes it and leaves
\* the assignments already made in place.
step(c) ==
    IF c.pc >= c.memory.len THEN Raise(c)
    ELSE
      LET opcode == MemRead(c.memory, c.pc)
          c1 == [c EXCEPT !.pc = c.pc + 1]
      IN  IF opcode = OpLDA THEN lda(c1)
          ELSE IF opcode \in {OpSTA, OpJMP} THEN absolute(c1, opcode)
          ELSE other(c1)

\* One pass of the loop body of emulate_single_frame: a step() call counted
\* in calls; once a step has raised, the loop has been left and nothing runs.
CountedStep(r) ==
    IF r.cpu.err # "none" THEN r
    ELSE [cpu |-> step(r.cpu), calls |-> r.calls + 1]

\* for _ in range(n): self.cpu.step()  -- n passes from r, split in halves
\* (the passes run in order; the loop ends at the first step that raises).
RECURSIVE RunSteps(_, _)
RunSteps(r, n) ==
    IF n = 0 THEN r
    ELSE IF n = 1 THEN CountedStep(r)
    ELSE LET half == RunSteps(r, n \div 2)
         IN  IF half.cpu.err # "none" THEN half
             ELSE RunSteps(half, n - (n \div 2))

CPU == [memory |-> memory, pc |-> pc, a |-> a, x |-> x, y |-> y, sp |-> sp,
        status |-> status, err |-> "none"]

SetCPU(c) ==
    /\ memory' = c.memory
    /\ pc' = c.pc
    /\ a' = c.a
    /\ x' = c.x
    /\ y' = c.y
    /\ sp' = c.sp
    /\ status' = c.status

----------------------------------------------------------------------------
(* SNESPPU *)

\* The framebuffer is a list of width * height entries that the program
\* only ever builds by a rule on the index.  Such a list is kept as
\* [len, mul, add, mod]: its length and the rule, entry i being
\* (mul * i + add) % mod.  An image is kept as its three colour planes, each
\* a list over the pixels in row-major order, pixel (col, row) being entry
\* row * width + col of each plane.

\* l[i] for 0 <= i < len(l)
ListAt(l, i) == (l.mul * i + l.add) % l.mod

\* [v] * n
Repeat(v, n) == [len |-> n, mul |-> 0, add |-> v, mod |-> v + 1]

\* pixels[col, row] of an image
PixelAt(img, col, row) ==
    LET i == row * img.width + col
    IN  <<ListAt(img.r, i), ListAt(img.g, i), ListAt(img.b, i)>>

\* self.ppu_image = None: no image, kept as an image without pixels
NoImage ==
    [width |-> 0, height |-> 0, r |-> Repeat(0, 0), g |-> Repeat(0, 0), b |-> Repeat(0, 0)]

\* SNESPPU.__init__
NewPPU == [framebuffer |-> Repeat(0, Width * Height), ppu_image |-> NoImage]

\* the image built by render_frame: pixels[x, y] = (color, color, color) for
\* color = framebuffer[y * width + x], every x in range(width) and y in
\* range(height)
RenderImage(fb, w, h) ==
    [width |-> w, height |-> h, r |-> fb, g |-> fb, b |-> fb]

\* render_frame that clears the framebuffer it has presented
render_frame_consuming(p) ==
    [framebuffer |-> Repeat(0, p.framebuffer.len),
     ppu_image |-> RenderImage(p.framebuffer, Width, Height)]

\* SNESPPU.render_frame on the PPU state p (the canvas item is added by the
\* handler that calls it)
render_frame(p) ==
    [p EXCEPT !.ppu_image = RenderImage(p.framebuffer, Width, Height)]

\* frame_pattern one entry too long
frame_pattern_long(w, h) ==
    [len |-> w * h + 1, mul |-> 1, add |-> 0, mod |-> ColorMod]

\* frame_pattern offset by the accumulator
frame_pattern_cpu(w, h) ==
    [len |-> w * h, mul |-> 1, add |-> a, mod |-> ColorMod]

\* the list assigned to ppu.framebuffer in emulate_single_frame,
\* [i % 256 for i in range(w * h)]
frame_pattern(w, h) ==
    [len |-> w * h, mul |-> 1, add |-> 0, mod |-> ColorMod]

PPU == [framebuffer |-> framebuffer, ppu_image |-> ppu_image]

SetPPU(p) ==
    /\ framebuffer' = p.framebuffer
    /\ ppu_image' = p.ppu_image

----------------------------------------------------------------------------
(* CitraLikeEmulator *)

\* files the user can pick in the "Open ROM..." dialog, as bytearrays
EmptyFile == FromSeq(<<>>)
JmpSelfFile == FromSeq(<<76, 128, 0>>)
StaFile == FromSeq(<<169, 5, 141, 0, 2>>)
IllegalFile == FromSeq(<<255>>)
JmpFarFile == FromSeq(<<76, 255, 240>>)
JmpTopFile == FromSeq(<<76, 255, 255>>)
StaHiFile == FromSeq(<<169, 127, 141, 18, 52>>)
\* RomReadMax + 1 bytes, the last one past what f.read keeps
LongFile == [len |-> RomReadMax + 1,
             nz  |-> (0 :> 169) @@ (RomReadMax - 1 :> 7) @@ (RomReadMax :> 9)]

RomFiles == {EmptyFile, JmpSelfFile, StaFile, IllegalFile, LongFile}

\* CitraLikeEmulator.__init__ (with SimpleSNESCPU.__init__, SNESPPU.__init__)
Init ==
    /\ memory = NewCPU.memory
    /\ pc = NewCPU.pc
    /\ a = NewCPU.a
    /\ x = NewCPU.x
    /\ y = NewCPU.y
    /\ sp = NewCPU.sp
    /\ status = NewCPU.status
    /\ framebuffer = NewPPU.framebuffer
    /\ ppu_image = NewPPU.ppu_image
    /\ is_running = FALSE
    /\ pending = 0
    /\ canvas = "empty"
    /\ status_label = "Ready"
    /\ lastOp = "init"
    /\ lastSteps = 0
    /\ rendered = FALSE
    /\ lastError = "none"
    /\ nticks = 0
    /\ nloads = 0

\* CitraLikeEmulator.load_rom with the file f picked in the dialog
load_rom(f) ==
    /\ memory' = SliceAssign(memory, RomLo, RomHi, ReadFile(f, RomReadMax))
    /\ status_label' = "Loaded"
    /\ lastOp' = "load_rom"
    /\ lastSteps' = 0
    /\ rendered' = FALSE
    /\ lastError' = "none"
    /\ UNCHANGED <<pc, a, x, y, sp, status, ppuVars, is_running, pending, canvas>>

\* CitraLikeEmulator.load_rom with the dialog cancelled (rom_path is empty)
load_rom_cancel ==
    /\ lastOp' = "load_rom"
    /\ lastSteps' = 0
    /\ rendered' = FALSE
    /\ lastError' = "none"
    /\ UNCHANGED <<cpuVars, ppuVars, is_running, pending, canvas, status_label>>

\* the loop of emulate_single_frame one pass short
frame_steps_short(c) == RunSteps([cpu |-> c, calls |-> 0], StepsPerFrame - 1)

\* the loop of emulate_single_frame: range(100) passes from the CPU state c
frame_steps(c) == RunSteps([cpu |-> c, calls |-> 0], StepsPerFrame)

\* CitraLikeEmulator.emulate_single_frame: the step loop, then the new
\* framebuffer and the render.  The result holds the CPU state, the PPU
\* state, the step() calls made and whether render_frame was reached.
emulate_single_frame(c) ==
    LET r == frame_steps(c)
    IN  [cpu |-> r.cpu, calls |-> r.calls, rendered |-> r.cpu.err = "none",
         ppu |-> IF r.cpu.err = "none"
                 THEN render_frame([PPU EXCEPT !.framebuffer = frame_pattern(Width, Height)])
                 ELSE PPU]

\* run_frame without its root.after(16, self.emulate)
run_frame_no_rearm(armed) ==
    LET r == emulate_single_frame(CPU)
    IN  /\ SetCPU(r.cpu)
        /\ SetPPU(r.ppu)
        /\ lastSteps' = r.calls
        /\ rendered' = r.rendered
        /\ lastError' = r.cpu.err
        /\ canvas' = IF r.rendered THEN "image" ELSE canvas
        /\ pending' = armed

\* emulate() past its guard, while `armed` other callbacks are armed: one
\* frame, then root.after(16, self.emulate); an exception leaves before
\* the re-arm.
run_frame(armed) ==
    LET r == emulate_single_frame(CPU)
    IN  /\ SetCPU(r.cpu)
        /\ SetPPU(r.ppu)
        /\ lastSteps' = r.calls
        /\ rendered' = r.rendered
        /\ lastError' = r.cpu.err
        /\ canvas' = IF r.rendered THEN "image" ELSE canvas
        /\ pending' = IF r.rendered THEN armed + 1 ELSE armed

\* emulate() returning at its guard
not_running(armed) ==
    /\ pending' = armed
    /\ lastSteps' = 0
    /\ rendered' = FALSE
    /\ lastError' = "none"
    /\ UNCHANGED <<cpuVars, ppuVars, canvas>>

\* emulate without its is_running guard
emulate_unguarded(run, armed) == run_frame(armed)

\* CitraLikeEmulator.emulate, called with is_running = run
emulate(run, armed) ==
    IF ~run THEN not_running(armed) ELSE run_frame(armed)

\* CitraLikeEmulator.start_emulation
start_emulation ==
    /\ is_running' = TRUE
    /\ status_label' = "Running"
    /\ lastOp' = "start_emulation"
    /\ emulate(TRUE, pending)

\* CitraLikeEmulator.pause_emulation
pause_emulation ==
    /\ is_running' = FALSE
    /\ status_label' = "Paused"
    /\ lastOp' = "pause_emulation"
    /\ lastSteps' = 0
    /\ rendered' = FALSE
    /\ lastError' = "none"
    /\ UNCHANGED <<cpuVars, ppuVars, pending, canvas>>

\* stop_emulation without its canvas.delete("all")
stop_emulation_keep_canvas ==
    /\ is_running' = FALSE
    /\ status_label' = "Stopped"
    /\ lastOp' = "stop_emulation"
    /\ lastSteps' = 0
    /\ rendered' = FALSE
    /\ lastError' = "none"
    /\ UNCHANGED <<cpuVars, ppuVars, pending, canvas>>

\* CitraLikeEmulator.stop_emulation
stop_emulation ==
    /\ is_running' = FALSE
    /\ status_label' = "Stopped"
    /\ canvas' = "empty"
    /\ lastOp' = "stop_emulation"
    /\ lastSteps' = 0
    /\ rendered' = FALSE
    /\ lastError' = "none"
    /\ UNCHANGED <<cpuVars, ppuVars, pending>>

\* SNESPPU.render_frame called on its own: the image is built from the
\* framebuffer as it is and put on the canvas
render_frame_call ==
    /\ SetPPU(render_frame(PPU))
    /\ canvas' = "image"
    /\ lastOp' = "render_frame"
    /\ lastSteps' = 0
    /\ rendered' = TRUE
    /\ lastError' = "none"
    /\ UNCHANGED <<cpuVars, is_running, pending, status_label>>

\* the Tk event loop runs one callback armed by root.after(16, self.emulate)
timer_fires ==
    /\ pending > 0
    /\ lastOp' = "emulate"
    /\ emulate(is_running, pending - 1)
    /\ UNCHANGED <<is_running, status_label>>

----------------------------------------------------------------------------
(* The emulator driven from its menu and by the timer, in bounded runs *)

LoadRom ==
    /\ nloads < MaxLoads
    /\ \E f \in RomFiles : load_rom(f)
    /\ nloads' = nloads + 1
    /\ UNCHANGED nticks

LoadRomCancel ==
    /\ lastOp # "load_rom"
    /\ load_rom_cancel
    /\ UNCHANGED <<nticks, nloads>>

Start ==
    /\ nticks < MaxTicks
    /\ pending < MaxPending
    /\ start_emulation
    /\ nticks' = nticks + 1
    /\ UNCHANGED nloads

Pause ==
    /\ pause_emulation
    /\ UNCHANGED <<nticks, nloads>>

Stop ==
    /\ stop_emulation
    /\ UNCHANGED <<nticks, nloads>>

TimerFires ==
    /\ nticks < MaxTicks
    /\ timer_fires
    /\ nticks' = nticks + 1
    /\ UNCHANGED nloads

Next == LoadRom \/ LoadRomCancel \/ Start \/ Pause \/ Stop \/ TimerFires

Spec == Init /\ [][Next]_vars

----------------------------------------------------------------------------
(* The CPU alone: a program is loaded, then step() is called one at a time *)

ByteSamples == {0, 1, 5, 127, 128, 169, 255}

\* LDA #v twice, the second behind an unassigned opcode
LdaFile(v) == FromSeq(<<169, v, 0, 169, v>>)

CpuPrograms ==
    {JmpSelfFile, StaFile, StaHiFile, IllegalFile, JmpFarFile, JmpTopFile}
        \cup {LdaFile(v) : v \in ByteSamples}

LoadProgram ==
    /\ nticks = 0
    /\ nloads < MaxLoads
    /\ \E f \in CpuPrograms : load_rom(f)
    /\ nloads' = nloads + 1
    /\ UNCHANGED nticks

StepOnce ==
    /\ nticks < MaxSteps
    /\ LET c == step(CPU)
       IN  /\ SetCPU(c)
           /\ lastError' = c.err
    /\ lastOp' = "step"
    /\ lastSteps' = 1
    /\ rendered' = FALSE
    /\ nticks' = nticks + 1
    /\ UNCHANGED <<ppuVars, is_running, pending, canvas, status_label, nloads>>

NextCPU == LoadProgram \/ StepOnce

SpecCPU == Init /\ [][NextCPU]_vars

----------------------------------------------------------------------------
(* The PPU: frames of the emulator, and render_frame called between them *)

\* the ROMs the frames are run on (besides the built-in program)
PpuFiles == {StaFile, JmpSelfFile}

\* a ROM is loaded before anything else is done
LoadFirst ==
    /\ lastOp = "init"
    /\ \E f \in PpuFiles : load_rom(f)
    /\ UNCHANGED <<nticks, nloads>>

RenderFrame ==
    /\ nticks < MaxTicks
    /\ render_frame_call
    /\ nticks' = nticks + 1
    /\ UNCHANGED nloads

NextPPU == LoadFirst \/ Start \/ Stop \/ TimerFires \/ RenderFrame

SpecPPU == Init /\ [][NextPPU]_vars

----------------------------------------------------------------------------
(* Short ROM files loaded over and over, then the emulator is started *)

ShrinkLoad ==
    /\ nticks = 0
    /\ nloads < MaxShrink
    /\ load_rom(JmpFarFile)
    /\ nloads' = nloads + 1
    /\ UNCHANGED nticks

StartErr ==
    /\ nticks < MaxErrTicks
    /\ pending < MaxPending
    /\ start_emulation
    /\ nticks' = nticks + 1
    /\ UNCHANGED nloads

TimerFiresErr ==
    /\ nticks < MaxErrTicks
    /\ timer_fires
    /\ nticks' = nticks + 1
    /\ UNCHANGED nloads

NextErr == ShrinkLoad \/ StartErr \/ Pause \/ Stop \/ TimerFiresErr

SpecErr == Init /\ [][NextErr]_vars

----------------------------------------------------------------------------
(* The built-in program left running: start is pressed once and the Tk     *)
(* event loop runs every callback it has armed.                            *)

StartOnce ==
    /\ lastOp = "init"
    /\ start_emulation
    /\ UNCHANGED <<nticks, nloads>>

TimerFiresLive ==
    /\ timer_fires
    /\ UNCHANGED <<nticks, nloads>>

NextLive == StartOnce \/ TimerFiresLive

\* Tk runs a callback armed with root.after once its delay is over: weak
\* fairness of the callback step, WF_vars(TimerFiresLive), written out as
\* []<>~ENABLED <<A>>_vars \/ []<><<A>>_vars.  A callback step is possible
\* exactly when one is armed, and it always changes the state (a frame moves
\* pc, a callback that returns at the guard or raises is gone from pending),
\* so ENABLED <<TimerFiresLive>>_vars is pending > 0.
CallbackFairness == []<>(pending = 0) \/ []<><<TimerFiresLive>>_vars

SpecLive == Init /\ [][NextLive]_vars /\ CallbackFairness

----------------------------------------------------------------------------
(* The built-in program stepped without end: step() is called one at a     *)
(* time on the CPU as constructed, no ROM loaded.                          *)

StepBuiltIn ==
    /\ LET c == step(CPU)
       IN  /\ SetCPU(c)
           /\ lastError' = c.err
    /\ lastOp' = "step"
    /\ lastSteps' = 1
    /\ rendered' = FALSE
    /\ UNCHANGED <<ppuVars, is_running, pending, canvas, status_label, nticks, nloads>>

NextStep == StepBuiltIn

SpecStep == Init /\ [][NextStep]_vars

----------------------------------------------------------------------------
(* Properties *)

regs == <<a, x, y, sp, status>>

\* the bytes of s are in memory from address p on
Installed(s, p) == \A i \in 1..Len(s) : MemRead(memory, p + i - 1) = s[i]

\* the transition is one step() call (SpecCPU)
StepTaken == nticks' = nticks + 1 /\ lastOp' = "step"

\* C1: with the bytes 4C 80 00 at 0x8000 and pc = 0x8000, a step() leaves
\* pc at 0x8000 and a, x, y, sp, status as they were; the state is then the
\* same again, so this is the whole of "one step and any number of further
\* steps".
Claim_C1 ==
    [][(Installed(<<76, 128, 0>>, 32768) /\ pc = 32768 /\ StepTaken)
          => (pc' = 32768 /\ regs' = regs)]_vars

\* C2: with the bytes A9 05 8D 00 02 at 0x8000 and the run begun at
\* pc = 0x8000, after exactly two step() calls the byte at 0x0200 is 5.
Claim_C2 ==
    (Installed(<<169, 5, 141, 0, 2>>, 32768) /\ nticks = 2 /\ lastOp = "step")
        => MemRead(memory, 512) = 5

\* C3: whenever memory[pc] is 0xA9 and memory[pc + 1] is a byte v of the
\* memory, one step() makes a = v and advances pc by exactly 2.
Thm_C3 ==
    [][(MemRead(memory, pc) = 169 /\ pc + 1 < memory.len /\ StepTaken)
          => (a' = MemRead(memory, pc + 1) /\ pc' = pc + 2)]_vars

\* C3 witness: the second LDA #128 of a loaded program, at 0x8003, has run
Witness_C3 ==
    /\ lastOp = "step"
    /\ Installed(<<169, 128, 0, 169, 128>>, 32768)
    /\ pc = 32773
    /\ a = 128

\* C4: when the byte at pc is none of 0xA9, 0x8D, 0x4C, step() ends in an
\* IllegalOpcodeError and changes no register and no memory byte.
Claim_C4 ==
    [][(pc < memory.len /\ MemRead(memory, pc) \notin {169, 141, 76} /\ StepTaken)
          => (lastError' = "IllegalOpcodeError" /\ cpuVars' = cpuVars)]_vars

\* C5: the memory is 0x100000 bytes long in every reachable state.
Claim_C5 == memory.len = 1048576

\* the transition is a load_rom of the file f
LoadTaken(f) ==
    /\ nloads' = nloads + 1
    /\ memory' = SliceAssign(memory, RomLo, RomHi, ReadFile(f, RomReadMax))

\* C6: a load_rom of an image of n bytes puts the image at 0x8000 ..
\* 0x8000 + n - 1 and leaves every byte outside that region as it was.
Claim_C6 ==
    [][\A f \in RomFiles : LoadTaken(f) =>
          LET d == ReadFile(f, RomReadMax)
          IN  \A k \in DOMAIN memory.nz \cup DOMAIN memory'.nz \cup {32768 + i : i \in DOMAIN d.nz} :
                 IF 32768 <= k /\ k < 32768 + d.len
                 THEN MemRead(memory', k) = MemRead(d, k - 32768)
                 ELSE MemRead(memory', k) = MemRead(memory, k)]_vars

\* C7: while is_running is false (pause or stop was the last of start, pause,
\* stop, or start was never called), a handler other than start_emulation
\* makes no step() call, renders no frame (an empty canvas stays empty) and
\* leaves the registers alone, also when it is an emulate callback armed
\* earlier.
Thm_C7 ==
    [][(~is_running /\ lastOp' # "start_emulation")
          => (lastSteps' = 0 /\ ~rendered' /\ (canvas = "empty" => canvas' = "empty")
              /\ pc' = pc /\ regs' = regs)]_vars

\* C7 witness: after a pause or stop an armed callback has fired and has
\* returned at the guard, the callback gone
Witness_C7 ==
    /\ lastOp = "emulate"
    /\ ~is_running
    /\ status_label \in {"Paused", "Stopped"}
    /\ lastSteps = 0
    /\ pending = 0

\* the last handler ran a frame tick with is_running true
TickRan == lastOp = "start_emulation" \/ (lastOp = "emulate" /\ is_running)

\* C8: a frame tick that runs while is_running is true makes exactly 100
\* step() calls and renders, unless a step raises, and then it has made at
\* most 100 calls and does not render.
Thm_C8 ==
    TickRan => IF lastError = "none"
               THEN lastSteps = 100 /\ rendered
               ELSE lastSteps >= 1 /\ lastSteps <= 100 /\ ~rendered

\* C8 witness: a timer callback has run a whole frame
Witness_C8 ==
    /\ lastOp = "emulate"
    /\ is_running
    /\ lastError = "none"
    /\ lastSteps = 100
    /\ rendered

\* C9: once started (and never paused or stopped), the emulator with its
\* built-in program runs frames for ever, provided the event loop runs every
\* callback that is armed.  Only a frame moves pc, and the frames of the
\* built-in program bring pc to 0x8000 and away from it again and again:
\* from every running state a later frame ends with pc = 0x8000 and its
\* callback armed, and a later frame ends with pc elsewhere.
Thm_C9 ==
    /\ is_running ~> (rendered /\ pending > 0 /\ pc = 32768)
    /\ is_running ~> (rendered /\ pending > 0 /\ pc # 32768)

\* C9 witness: after the frames of a full round of the built-in program the
\* callback is armed again with pc back at 0x8000
Witness_C9 ==
    /\ is_running
    /\ lastOp = "emulate"
    /\ rendered
    /\ pending = 1
    /\ pc = 32768

\* C10: when a step() of a frame raises, the scheduler is stopped: the frame
\* is not rendered, and is_running is false afterwards.
Claim_C10 == (lastError # "none") => (~rendered /\ ~is_running)

\* C11: pc is a 16-bit unsigned value: whatever the memory holds, after
\* every step() of a run begun at pc = 0x8000, 0 <= pc <= 0xFFFF.
Claim_C11 == 0 <= pc /\ pc <= 65535

\* C12: stop_emulation, from Running or from Paused, leaves the canvas
\* without an image, and the canvas of a stopped emulator stays empty under
\* every handler but start_emulation: a callback still armed when stop was
\* called fires without drawing.
Thm_C12 ==
    [][/\ (lastOp' = "stop_emulation" => (canvas' = "empty" /\ ~is_running'))
       /\ ((~is_running /\ canvas = "empty" /\ lastOp' # "start_emulation")
              => (canvas' = "empty" /\ ~is_running'))]_vars

\* C12 witness: the emulator was stopped with a callback armed, the callback
\* has fired, and the canvas is empty
Witness_C12 ==
    /\ lastOp = "emulate"
    /\ status_label = "Stopped"
    /\ nticks >= 2
    /\ pending = 0
    /\ canvas = "empty"

\* C13: in every reachable state, after construction and after any number
\* of frames, the framebuffer has exactly 256 * 224 entries and every entry
\* is an integer in 0..255.
Thm_C13 ==
    /\ framebuffer.len = 256 * 224
    /\ \A i \in 0..(framebuffer.len - 1) : ListAt(framebuffer, i) \in 0..255

\* C13 witness: a frame has replaced the framebuffer; its last entry is 255
Witness_C13 ==
    /\ lastOp = "emulate"
    /\ rendered
    /\ ListAt(framebuffer, framebuffer.len - 1) = 255

\* the transition is a render_frame call made on its own (SpecPPU)
RenderTaken == nticks' = nticks + 1 /\ lastOp' = "render_frame"

\* C14: a render_frame call leaves the framebuffer, the CPU registers and
\* the memory as they were; pixel (x, y) of its image is (v, v, v) for
\* v = framebuffer[y * width + x]; and when an image was rendered before
\* (every framebuffer update is followed by a render), its image is
\* identical to that one.
Thm_C14 ==
    [][RenderTaken =>
          /\ framebuffer' = framebuffer
          /\ cpuVars' = cpuVars
          /\ \A row \in 0..223 : \A col \in 0..255 :
                 LET v == ListAt(framebuffer, row * 256 + col)
                 IN  PixelAt(ppu_image', col, row) = <<v, v, v>>
          /\ (ppu_image.width > 0 => ppu_image' = ppu_image)]_vars

\* C14 witness: render_frame has been called after the render of a frame,
\* the image holding the frame's pattern
Witness_C14 ==
    /\ lastOp = "render_frame"
    /\ nticks >= 2
    /\ PixelAt(ppu_image, 255, 223) = <<255, 255, 255>>
    /\ PixelAt(ppu_image, 1, 0) = <<1, 1, 1>>

Thm_C16 == x = 0 /\ y = 0 /\ sp = 256 /\ status = 0

\* C16 witness: a frame of a loaded ROM has run its 100 steps and has
\* moved a and pc
Witness_C16 ==
    /\ lastOp = "emulate"
    /\ nloads = 1
    /\ lastSteps = 100
    /\ a = 5
    /\ pc # 32768

\* the last handler ran a whole frame: its steps, the framebuffer update and
\* the render
FrameRan == lastOp \in {"start_emulation", "emulate"} /\ rendered

\* C17: after every frame tick framebuffer[i] = i % 256 for every index i,
\* whatever the memory, the registers and the ROM loaded: the framebuffers
\* of any two emulators are the same list after each of their frames.
Thm_C17 ==
    FrameRan => \A i \in 0..(framebuffer.len - 1) : ListAt(framebuffer, i) = i % 256

\* C17 witness: a second frame has run on a program that has set a = 5;
\* entry 300 of the framebuffer is 44
Witness_C17 ==
    /\ FrameRan
    /\ nticks >= 2
    /\ status_label = "Running"
    /\ Installed(<<169, 5, 141, 0, 2>>, 32768)
    /\ a = 5
    /\ ListAt(framebuffer, 300) = 44

\* C18: at most one emulate callback is armed at any time, under every
\* interleaving of start, pause, stop and timer firings.
Claim_C18 == pending <= 1

\* C19: from a freshly constructed CPU (the built-in program, no ROM
\* loaded), after any number of step() calls no step has read or written
\* outside the memory (none has raised IndexError) and pc is at most 0x8005.
Thm_C19 == lastError = "none" /\ 0 <= pc /\ pc <= 32773 /\ pc < memory.len

\* C19 witness: the program has stored a = 5 at 0x0002, has jumped to
\* 0x0082 and has walked all the way back up to its first byte at 0x8000
Witness_C19 ==
    /\ lastOp = "step"
    /\ pc = 32768
    /\ a = 5
    /\ MemRead(memory, 2) = 5

====
